---------------------------- MODULE Spec2Model ----------------------------
(***************************************************************************)
(* A model of the CFR state store of rs-poker (src/arena/cfr):             *)
(* StateStore handles over shared storage (Rc<RefCell<StateStoreInternal>>)*)
(* holding a sequence of CFRState trees and a sequence of per-player       *)
(* traversal stacks, with tree creation, push/pop traversal, merge and     *)
(* JSON snapshot save/load.                                                *)
(*                                                                         *)
(* Rust indices are 0-based, TLA+ sequences 1-based: Get(s, i) is s.get(i).*)
(* Option<T> is a sequence of length 0 (None) or 1 (Some).                 *)
(* A panic is fatal: what the operation wrote before the panic stays in    *)
(* the storage (the state the unwinding leaves behind) and the program     *)
(* makes no further call.                                                  *)
(***************************************************************************)
EXTENDS Integers, Sequences, FiniteSets, TLC

\* ------------------------------------------------------------------ bounds
\* Trees one storage may hold, and trees new_state may create in all storages
\* together.
MaxTrees == 2
\* Entries of one traversal stack.
MaxDepth == 3

\* StateStore values (handles) and Rc allocations (storages) that may exist
\* at once: an original, and a duplicate of it or a second store.
Handles == {1, 2}
Stores == {1, 2}
\* Player indices passed to the operations.
Players == {0, 1}
\* Starting configurations (GameState values): opaque, two distinct ones.
Configs == {"cfgA", "cfgB"}

\* Visits counted on one edge of a node.
MaxCount == 2
\* Width of the children and count arrays of a Node.
Width == 52
\* Edge labels passed to the node operations: the first two, the last one,
\* and the first one past the arrays.
EdgeInputs == {0, 1, Width - 1, Width}
\* Child node indices passed to set_child.
ChildInputs == {1, 2}
\* Lengths of the children and count sequences of a Node document: a few
\* entries, one less than the arrays, one more than the arrays.
LenInputs == {2, Width - 1, Width + 1}
\* Terminal payoffs (f32, finite): opaque values.
Utilities == {"0.0", "42.5"}

\* ------------------------------------------------------- Option and Vec
None == <<>>
Some(x) == <<x>>

\* Vec::get(i): Some(s[i]) when i < len, else None.
Get(s, i) == IF i < Len(s) THEN Some(s[i + 1]) ELSE None

\* Vec::last().
Last(s) == IF Len(s) > 0 THEN Some(s[Len(s)]) ELSE None

\* Vec::pop(): the vector without its last element (an empty one stays empty).
PopBack(s) == IF Len(s) = 0 THEN s ELSE SubSeq(s, 1, Len(s) - 1)

\* ------------------------------------------- TraversalState and CFRState
\* TraversalState::new(node_idx, chosen_child_idx, player_idx).
TraversalState_new(node_idx, chosen_child_idx, player_idx) ==
    [node_idx |-> node_idx, chosen_child_idx |-> chosen_child_idx,
     player_idx |-> player_idx]

\* TraversalState::new_root(player_idx): the cursor at the root node.
TraversalState_new_root(player_idx) == TraversalState_new(0, 0, player_idx)

\* CFRState::new(game_state): a tree for the starting configuration.
CFRState_new(game_state) == [starting_game_state |-> game_state]

\* StateStoreInternal of StateStore::new().
EmptyInternal == [cfr_states |-> <<>>, traversal_states |-> <<>>]

\* ------------------------------------------------------------ observers
\* StateStore::len on a storage value.
len(st) == Len(st.cfr_states)

\* StateStore::is_empty.
is_empty(st) == len(st) = 0

\* StateStore::traversal_len.
traversal_len(st, player_idx) ==
    LET t == Get(st.traversal_states, player_idx)
    IN  IF t = None THEN 0 ELSE Len(t[1])

\* StateStore::peek_traversal.
peek_traversal(st, player_idx) ==
    LET t == Get(st.traversal_states, player_idx)
    IN  IF t = None THEN None ELSE Last(t[1])


\* ----------------------------------------------------- result of a call
\* What a call leaves behind: the storage after it, how it ended ("ok", or
\* "panic" for a fatal failure) and the values it returned.
Result(inner_, outcome_, state_, traversal_) ==
    [inner |-> inner_, outcome |-> outcome_, state |-> state_,
     traversal |-> traversal_]

\* vec[player_idx].push(t) on the traversal stacks of a storage value.
PushCursor(st, player_idx, t) ==
    [st EXCEPT !.traversal_states[player_idx + 1] = Append(@, t)]

\* The tail shared by new_state and push_traversal: look up the stack of
\* player_idx, copy its last cursor, push the copy, then look up the tree at
\* slot player_idx and return a clone of it with the copy.
CopyTopAndFetch(st, player_idx) ==
    LET stack == Get(st.traversal_states, player_idx)
    IN  IF stack = None
        THEN Result(st, "panic", None, None)   \* "Traversal state ... not found"
        ELSE LET last_ == Last(stack[1])
             IN  IF last_ = None
                 THEN Result(st, "panic", None, None) \* "No traversal state found"
                 ELSE LET nts == TraversalState_new(last_[1].node_idx,
                                                    last_[1].chosen_child_idx,
                                                    last_[1].player_idx)
                          st2 == PushCursor(st, player_idx, nts)
                          tree == Get(st2.cfr_states, player_idx)
                      IN  IF tree = None
                          THEN Result(st2, "panic", None, None) \* "State ... not found"
                          ELSE Result(st2, "ok", tree, Some(nts))

\* new_state looking up the stack of player_idx before it appends the new
\* stack: for a player past the end it fails with the tree appended alone.
new_state_stack_after_lookup(st, game_state, player_idx) ==
    LET st1 == [st EXCEPT !.cfr_states = Append(@, CFRState_new(game_state))]
        st2 == [st1 EXCEPT !.traversal_states =
                    Append(@, <<TraversalState_new_root(player_idx)>>)]
    IN  IF player_idx > Len(st.traversal_states)
        THEN Result(st1, "panic", None, None)
        ELSE CopyTopAndFetch(st2, player_idx)

\* new_state seeding the stack at slot player_idx when that slot exists,
\* instead of appending a stack.
new_state_seeding_slot(st, game_state, player_idx) ==
    LET st1 == [st EXCEPT !.cfr_states = Append(@, CFRState_new(game_state))]
        st2 == IF player_idx < Len(st.traversal_states)
               THEN PushCursor(st1, player_idx, TraversalState_new_root(player_idx))
               ELSE [st1 EXCEPT !.traversal_states =
                        Append(@, <<TraversalState_new_root(player_idx)>>)]
    IN  CopyTopAndFetch(st2, player_idx)

\* StateStore::new_state on the storage value st.
new_state(st, game_state, player_idx) ==
    LET st1 == [st EXCEPT !.cfr_states = Append(@, CFRState_new(game_state))]
        st2 == [st1 EXCEPT !.traversal_states =
                    Append(@, <<TraversalState_new_root(player_idx)>>)]
    IN  CopyTopAndFetch(st2, player_idx)

\* push_traversal building the pushed cursor for the player asked for instead
\* of copying the player of the top cursor.
push_traversal_for_player(st, player_idx) ==
    LET stack == Get(st.traversal_states, player_idx)
    IN  IF stack = None \/ Last(stack[1]) = None
        THEN Result(st, "panic", None, None)
        ELSE LET top == Last(stack[1])[1]
                 nts == TraversalState_new(top.node_idx, top.chosen_child_idx,
                                           player_idx)
                 st2 == PushCursor(st, player_idx, nts)
                 tree == Get(st2.cfr_states, player_idx)
             IN  IF tree = None
                 THEN Result(st2, "panic", None, None)
                 ELSE Result(st2, "ok", tree, Some(nts))

\* push_traversal that reseeds an empty stack with a root cursor instead of
\* failing.
push_traversal_reseeding(st, player_idx) ==
    LET stack == Get(st.traversal_states, player_idx)
    IN  IF stack # None /\ Last(stack[1]) = None /\ Get(st.cfr_states, player_idx) # None
        THEN Result(PushCursor(st, player_idx, TraversalState_new_root(player_idx)),
                    "ok", Get(st.cfr_states, player_idx),
                    Some(TraversalState_new_root(player_idx)))
        ELSE CopyTopAndFetch(st, player_idx)

\* push_traversal pushing the copy onto the last stack of the store instead
\* of the stack of the player asked for.
push_traversal_on_last_stack(st, player_idx) ==
    LET stack == Get(st.traversal_states, player_idx)
    IN  IF stack = None \/ Last(stack[1]) = None
        THEN Result(st, "panic", None, None)
        ELSE LET nts == Last(stack[1])[1]
                 st2 == PushCursor(st, Len(st.traversal_states) - 1, nts)
                 tree == Get(st2.cfr_states, player_idx)
             IN  IF tree = None
                 THEN Result(st2, "panic", None, None)
                 ELSE Result(st2, "ok", tree, Some(nts))

\* StateStore::push_traversal on the storage value st.
push_traversal(st, player_idx) == CopyTopAndFetch(st, player_idx)

\* pop_traversal without the emptiness assertion: Vec::pop on an empty stack
\* returns None and the call returns normally.
pop_traversal_unchecked(st, player_idx) ==
    LET stack == Get(st.traversal_states, player_idx)
    IN  IF stack = None
        THEN Result(st, "panic", None, None)
        ELSE Result([st EXCEPT !.traversal_states[player_idx + 1] = PopBack(@)],
                    "ok", None, None)

\* pop_traversal popping the stack of the first player, whoever is asked for.
pop_traversal_first_player(st, player_idx) ==
    LET stack == Get(st.traversal_states, player_idx)
    IN  IF stack = None \/ Len(stack[1]) = 0
        THEN Result(st, "panic", None, None)
        ELSE Result([st EXCEPT !.traversal_states[1] = PopBack(@)],
                    "ok", None, None)

\* StateStore::pop_traversal on the storage value st.
pop_traversal(st, player_idx) ==
    LET stack == Get(st.traversal_states, player_idx)
    IN  IF stack = None
        THEN Result(st, "panic", None, None)   \* expect("... not found")
        ELSE IF Len(stack[1]) = 0
             THEN Result(st, "panic", None, None)   \* assert!(!is_empty())
             ELSE Result([st EXCEPT !.traversal_states[player_idx + 1] = PopBack(@)],
                         "ok", None, None)

\* peek_traversal taking the top cursor off the stack (Vec::pop) instead of
\* copying it (last().cloned()).
peek_traversal_taking(st, player_idx) ==
    LET stack == Get(st.traversal_states, player_idx)
    IN  IF stack = None \/ Len(stack[1]) = 0
        THEN Result(st, "ok", None, None)
        ELSE Result([st EXCEPT !.traversal_states[player_idx + 1] = PopBack(@)],
                    "ok", None, Last(stack[1]))

\* The observers as calls on the storage value st: they borrow it immutably
\* and return a value (in the second returned position).
peek_traversal_call(st, player_idx) ==
    Result(st, "ok", None, peek_traversal(st, player_idx))

traversal_len_call(st, player_idx) ==
    Result(st, "ok", None, Some(traversal_len(st, player_idx)))

len_call(st) == Result(st, "ok", None, Some(len(st)))

is_empty_call(st) == Result(st, "ok", None, Some(is_empty(st)))

\* merge_from without its second loop: the trees are appended, the traversal
\* stacks are not.
merge_from_trees_only(storage, self_ptr, other_ptr) ==
    IF self_ptr = other_ptr
    THEN Result(storage[self_ptr], "panic", None, None)
    ELSE Result([cfr_states |-> storage[self_ptr].cfr_states
                                    \o storage[other_ptr].cfr_states,
                 traversal_states |-> storage[self_ptr].traversal_states],
                "ok", None, None)

\* merge_from giving each appended cursor the index of the slot its stack
\* lands in.
merge_from_renumbering(storage, self_ptr, other_ptr) ==
    IF self_ptr = other_ptr
    THEN Result(storage[self_ptr], "panic", None, None)
    ELSE LET A == Len(storage[self_ptr].traversal_states)
             O == storage[other_ptr].traversal_states
         IN  Result([cfr_states |-> storage[self_ptr].cfr_states
                                        \o storage[other_ptr].cfr_states,
                     traversal_states |-> storage[self_ptr].traversal_states
                        \o [i \in 1..Len(O) |->
                              [j \in 1..Len(O[i]) |->
                                 [O[i][j] EXCEPT !.player_idx = A + i - 1]]]],
                    "ok", None, None)

\* merge_from copying other's vectors before it borrows self mutably: merging
\* a store with a duplicate of itself doubles it.
merge_from_copy_first(storage, self_ptr, other_ptr) ==
    Result([cfr_states |-> storage[self_ptr].cfr_states
                              \o storage[other_ptr].cfr_states,
            traversal_states |-> storage[self_ptr].traversal_states
                              \o storage[other_ptr].traversal_states],
           "ok", None, None)

\* StateStore::merge_from on the storage map: self_ptr and other_ptr are the
\* Rc pointers of the two handles.  self.inner.borrow_mut() followed by
\* other.inner.borrow() on the same RefCell panics before anything is pushed.
merge_from(storage, self_ptr, other_ptr) ==
    IF self_ptr = other_ptr
    THEN Result(storage[self_ptr], "panic", None, None)
    ELSE Result([cfr_states |-> storage[self_ptr].cfr_states
                                    \o storage[other_ptr].cfr_states,
                 traversal_states |-> storage[self_ptr].traversal_states
                                    \o storage[other_ptr].traversal_states],
                "ok", None, None)

\* Clone as derive(Clone) on the storage itself would do it: a fresh
\* allocation holding a copy.
clone_deep(storage, ptr, fresh) ==
    [ptr |-> fresh,
     storage |-> IF fresh = 0 THEN storage
                 ELSE [storage EXCEPT ![fresh] = storage[ptr]]]

\* Clone of a StateStore handle (derive(Clone) on a struct holding an Rc):
\* the new handle points at the same storage; nothing is allocated.
\* Returns the pointer of the new handle and the storage map after the clone.
clone(storage, ptr, fresh) == [ptr |-> ptr, storage |-> storage]

\* ----------------------------------------------------------------- Node
\* NodeData: the four variants, Player and Terminal with their payload.
NodeData_Root == [kind |-> "Root"]
NodeData_Chance == [kind |-> "Chance"]
NodeData_Player(player_data) == [kind |-> "Player", data |-> player_data]
NodeData_Terminal(terminal_data) == [kind |-> "Terminal", data |-> terminal_data]

PlayerData_new(regret_matcher, player_idx) ==
    [regret_matcher |-> regret_matcher, player_idx |-> player_idx]

TerminalData_new(total_utility) == [total_utility |-> total_utility]

is_terminal(data) == data.kind = "Terminal"

\* Node::new_root().
Node_new_root ==
    [idx |-> 0, data |-> NodeData_Root, parent |-> Some(0),
     parent_child_idx |-> None,
     children |-> [i \in 1..Width |-> None], count |-> [i \in 1..Width |-> 0]]

\* Node::new(idx, parent, parent_child_idx, data).
Node_new(idx, parent, parent_child_idx, data) ==
    [idx |-> idx, data |-> data, parent |-> Some(parent),
     parent_child_idx |-> Some(parent_child_idx),
     children |-> [i \in 1..Width |-> None], count |-> [i \in 1..Width |-> 0]]

\* What a node call leaves behind: the node after it, how it ended and the
\* value it returned.
NodeResult(node_, outcome_, value_) ==
    [node |-> node_, outcome |-> outcome_, value |-> value_]

\* set_child accepting a second write of the value the slot already holds.
set_child_idempotent(n, idx, child) ==
    IF idx >= Width THEN NodeResult(n, "panic", None)
    ELSE IF n.children[idx + 1] # None /\ n.children[idx + 1] # Some(child)
    THEN NodeResult(n, "panic", None)
    ELSE NodeResult([n EXCEPT !.children[idx + 1] = Some(child)], "ok", None)

\* Node::set_child.  Indexing past the array panics, as does the assert_eq
\* on an occupied slot.
set_child(n, idx, child) ==
    IF idx >= Width THEN NodeResult(n, "panic", None)
    ELSE IF n.children[idx + 1] # None THEN NodeResult(n, "panic", None)
    ELSE NodeResult([n EXCEPT !.children[idx + 1] = Some(child)], "ok", None)

\* Node::get_child.
get_child(n, idx) ==
    IF idx >= Width THEN NodeResult(n, "panic", None)
    ELSE NodeResult(n, "ok", n.children[idx + 1])

\* increment_count counting every visit on edge 0.
increment_count_edge_zero(n, idx) ==
    IF ~(idx = 0 \/ ~is_terminal(n.data)) THEN NodeResult(n, "panic", None)
    ELSE IF idx >= Width THEN NodeResult(n, "panic", None)
    ELSE NodeResult([n EXCEPT !.count[1] = @ + 1], "ok", None)

\* increment_count without its assertion.
increment_count_unchecked(n, idx) ==
    IF idx >= Width THEN NodeResult(n, "panic", None)
    ELSE NodeResult([n EXCEPT !.count[idx + 1] = @ + 1], "ok", None)

\* Node::increment_count: the assert, then the indexing, then += 1 on a u32
\* (the counts of the model stay far below the u32 range, where += 1 is + 1).
increment_count(n, idx) ==
    IF ~(idx = 0 \/ ~is_terminal(n.data)) THEN NodeResult(n, "panic", None)
    ELSE IF idx >= Width THEN NodeResult(n, "panic", None)
    ELSE NodeResult([n EXCEPT !.count[idx + 1] = @ + 1], "ok", None)

\* Node::get_count.
get_count(n, idx) ==
    IF idx >= Width THEN NodeResult(n, "panic", 0)
    ELSE NodeResult(n, "ok", n.count[idx + 1])

\* children.iter().enumerate().filter_map(..) from array position i on.
RECURSIVE IterFrom(_, _)
IterFrom(children, i) ==
    IF i > Len(children) THEN <<>>
    ELSE (IF children[i] = None THEN <<>> ELSE << <<i - 1, children[i][1]>> >>)
         \o IterFrom(children, i + 1)

\* iter_children starting at the second slot.
iter_children_from_second(n) == IterFrom(n.children, 2)

\* Node::iter_children, collected.
iter_children(n) == IterFrom(n.children, 1)

\* ------------------------------------------------------------- snapshot
\* A JSON object is a sequence of <<key, value>> pairs, a JSON array a
\* sequence, an Option null (None) or the value (Some).
Field(doc, key) ==
    LET hits == {i \in 1..Len(doc) : doc[i][1] = key}
    IN  IF hits = {} THEN None ELSE Some(doc[CHOOSE i \in hits : TRUE][2])

\* impl Serialize for PlayerData: the regret matcher is written as null.
PlayerData_serialize(p) ==
    << <<"regret_matcher", None>>, <<"player_idx", p.player_idx>> >>

\* A PlayerData deserializer that reads no player index.
PlayerData_deserialize_no_idx(doc) == PlayerData_new(None, 0)

\* impl Deserialize for PlayerData: the regret matcher is always None.
PlayerData_deserialize(doc) ==
    PlayerData_new(None, Field(doc, "player_idx")[1])

\* derive(Serialize, Deserialize) for TerminalData.
TerminalData_serialize(t) == << <<"total_utility", t.total_utility>> >>

TerminalData_deserialize(doc) == TerminalData_new(Field(doc, "total_utility")[1])

\* derive(Serialize, Deserialize) for NodeData (externally tagged): a unit
\* variant is its name, a variant with a payload an object of one member.
NodeData_serialize(data) ==
    CASE data.kind = "Root" -> <<"unit", "Root">>
      [] data.kind = "Chance" -> <<"unit", "Chance">>
      [] data.kind = "Player" ->
            <<"newtype", "Player", PlayerData_serialize(data.data)>>
      [] data.kind = "Terminal" ->
            <<"newtype", "Terminal", TerminalData_serialize(data.data)>>

NodeData_deserialize(doc) ==
    CASE doc[1] = "unit" /\ doc[2] = "Root" -> NodeData_Root
      [] doc[1] = "unit" /\ doc[2] = "Chance" -> NodeData_Chance
      [] doc[1] = "newtype" /\ doc[2] = "Player" ->
            NodeData_Player(PlayerData_deserialize(doc[3]))
      [] doc[1] = "newtype" /\ doc[2] = "Terminal" ->
            NodeData_Terminal(TerminalData_deserialize(doc[3]))

\* impl Serialize for Node: six fields, the arrays as vectors.
Node_serialize(n) ==
    << <<"idx", n.idx>>, <<"data", NodeData_serialize(n.data)>>,
       <<"parent", n.parent>>, <<"parent_child_idx", n.parent_child_idx>>,
       <<"children", n.children>>, <<"count", n.count>> >>

\* A Node deserializer that copies one entry less than the array width.
Node_deserialize_short(doc) ==
    LET helper_children == Field(doc, "children")[1]
        helper_count == Field(doc, "count")[1]
    IN  [idx |-> Field(doc, "idx")[1],
         data |-> NodeData_deserialize(Field(doc, "data")[1]),
         parent |-> Field(doc, "parent")[1],
         parent_child_idx |-> Field(doc, "parent_child_idx")[1],
         children |-> [i \in 1..Width |->
                         IF i <= Len(helper_children) /\ i < Width
                         THEN helper_children[i] ELSE None],
         count |-> [i \in 1..Width |->
                      IF i <= Len(helper_count) /\ i < Width
                      THEN helper_count[i] ELSE 0]]

\* A Node deserializer whose entries past the array width wrap around to the
\* first slots.
Node_deserialize_wrapping(doc) ==
    LET helper_children == Field(doc, "children")[1]
        helper_count == Field(doc, "count")[1]
    IN  [idx |-> Field(doc, "idx")[1],
         data |-> NodeData_deserialize(Field(doc, "data")[1]),
         parent |-> Field(doc, "parent")[1],
         parent_child_idx |-> Field(doc, "parent_child_idx")[1],
         children |-> [i \in 1..Width |->
                         IF i + Width <= Len(helper_children)
                         THEN helper_children[i + Width]
                         ELSE IF i <= Len(helper_children)
                         THEN helper_children[i] ELSE None],
         count |-> [i \in 1..Width |->
                      IF i + Width <= Len(helper_count)
                      THEN helper_count[i + Width]
                      ELSE IF i <= Len(helper_count)
                      THEN helper_count[i] ELSE 0]]

\* impl Deserialize for Node: the vectors are copied into arrays of None and
\* 0, up to the array width.
Node_deserialize(doc) ==
    LET helper_children == Field(doc, "children")[1]
        helper_count == Field(doc, "count")[1]
    IN  [idx |-> Field(doc, "idx")[1],
         data |-> NodeData_deserialize(Field(doc, "data")[1]),
         parent |-> Field(doc, "parent")[1],
         parent_child_idx |-> Field(doc, "parent_child_idx")[1],
         children |-> [i \in 1..Width |->
                         IF i <= Len(helper_children) THEN helper_children[i]
                         ELSE None],
         count |-> [i \in 1..Width |->
                      IF i <= Len(helper_count) THEN helper_count[i] ELSE 0]]

\* Serialize / Deserialize of TraversalState: its three fields.
TraversalState_serialize(t) ==
    << <<"node_idx", t.node_idx>>, <<"chosen_child_idx", t.chosen_child_idx>>,
       <<"player_idx", t.player_idx>> >>

TraversalState_deserialize(doc) ==
    TraversalState_new(Field(doc, "node_idx")[1], Field(doc, "chosen_child_idx")[1],
                       Field(doc, "player_idx")[1])

\* A tree together with its arena of nodes (the store model above leaves the
\* arena out of its trees).
CFRState_with_nodes(game_state, nodes) ==
    [starting_game_state |-> game_state, nodes |-> nodes]

\* Serialize / Deserialize of CFRState: its starting configuration and, when
\* the arena is carried, its nodes, each through the Node serializer.
CFRState_serialize(c) ==
    << <<"starting_game_state", c.starting_game_state>> >>
       \o (IF "nodes" \in DOMAIN c
           THEN << <<"nodes", [i \in 1..Len(c.nodes) |->
                                 Node_serialize(c.nodes[i])]>> >>
           ELSE <<>>)

CFRState_deserialize(doc) ==
    IF Field(doc, "nodes") = None
    THEN CFRState_new(Field(doc, "starting_game_state")[1])
    ELSE CFRState_with_nodes(
            Field(doc, "starting_game_state")[1],
            [i \in 1..Len(Field(doc, "nodes")[1]) |->
               Node_deserialize(Field(doc, "nodes")[1][i])])

\* A serializer that writes only the top cursor of each traversal stack.
serialize_tops_only(st) ==
    << <<"cfr_states",
         [i \in 1..Len(st.cfr_states) |-> CFRState_serialize(st.cfr_states[i])]>>,
       <<"traversal_states",
         [i \in 1..Len(st.traversal_states) |->
            [j \in 1..(IF Len(st.traversal_states[i]) = 0 THEN 0 ELSE 1) |->
               TraversalState_serialize(
                  st.traversal_states[i][Len(st.traversal_states[i])])]]>> >>

\* derive(Serialize) on StateStoreInternal, through impl Serialize for StateStore.
serialize(st) ==
    << <<"cfr_states",
         [i \in 1..Len(st.cfr_states) |-> CFRState_serialize(st.cfr_states[i])]>>,
       <<"traversal_states",
         [i \in 1..Len(st.traversal_states) |->
            [j \in 1..Len(st.traversal_states[i]) |->
               TraversalState_serialize(st.traversal_states[i][j])]]>> >>

\* derive(Deserialize) on StateStoreInternal, through impl Deserialize for
\* StateStore: the storage value read back from a document.
deserialize(doc) ==
    LET cs == Field(doc, "cfr_states")[1]
        ts == Field(doc, "traversal_states")[1]
    IN  [cfr_states |-> [i \in 1..Len(cs) |-> CFRState_deserialize(cs[i])],
         traversal_states |->
            [i \in 1..Len(ts) |->
               [j \in 1..Len(ts[i]) |-> TraversalState_deserialize(ts[i][j])]]]

\* serde_json::from_str::<StateStore>: a document lacking a field of
\* StateStoreInternal (a truncated or foreign document) is a decode error.
from_str_lenient(doc) ==
    IF Field(doc, "cfr_states") = None \/ Field(doc, "traversal_states") = None
    THEN [outcome |-> "ok", value |-> EmptyInternal]
    ELSE [outcome |-> "ok", value |-> deserialize(doc)]

from_str(doc) ==
    IF Field(doc, "cfr_states") = None \/ Field(doc, "traversal_states") = None
    THEN [outcome |-> "err", value |-> EmptyInternal]
    ELSE [outcome |-> "ok", value |-> deserialize(doc)]

\* load_from_file reading into the allocation of the first store instead of
\* a new one.
load_from_file_shared(storage, contents, fresh) ==
    IF contents = None \/ from_str(contents[1]).outcome = "err"
    THEN [outcome |-> "err", ptr |-> 0, storage |-> storage]
    ELSE [outcome |-> "ok", ptr |-> 1,
          storage |-> [storage EXCEPT ![1] = from_str(contents[1]).value]]

\* StateStore::load_from_file on the storage map.  contents is what
\* fs::read_to_string gives: None when the file is missing or unreadable.
\* Both `?` return the error; on success the store read is put in the new
\* allocation fresh (Rc::new) and the new handle points at it.
load_from_file(storage, contents, fresh) ==
    IF contents = None
    THEN [outcome |-> "err", ptr |-> 0, storage |-> storage]
    ELSE LET d == from_str(contents[1])
         IN  IF d.outcome = "err"
             THEN [outcome |-> "err", ptr |-> 0, storage |-> storage]
             ELSE [outcome |-> "ok", ptr |-> fresh,
                   storage |-> [storage EXCEPT ![fresh] = d.value]]

\* What a failed fs::write can leave of a document: its beginning.
Truncated(doc) == SubSeq(doc, 1, 1)

\* How fs::write may end: written in full, failed leaving the file as it
\* was, failed leaving a truncated document.
WriteOutcomes == {"ok", "err_untouched", "err_truncated"}

\* ---------------------------------------------------------------- state
VARIABLES
    storage,    \* storage[s]: the StateStoreInternal inside Rc allocation s
    inner,      \* inner[h]: the allocation handle h points at (0: no such handle)
    origin,     \* origin[h]: the handle h was cloned from (0: made by new or load)
    file,       \* the snapshot file: None, or Some(document)
    saved,      \* the storage value the last save_to_file wrote (None: none yet)
    loaded,     \* the handles returned by load_from_file
    node,       \* the Node under test: None until it is created, then Some(n)
    increments, \* increments[e]: the increment_count(e) calls that returned
    walk,       \* the tree walk opened by the last new_state, when walks are
                \* followed: its store, player, cursor, depth, the pushes not
                \* yet popped and the most there were
    nlast,      \* the last Node call: operation, arguments, outcome, returned
                \* value, and the node as it was before the call
    last        \* the last call: operation, arguments, outcome, returned values,
                \* the handle map and the storage map as they were before it

vars == <<storage, inner, origin, file, saved, loaded, walk, node, increments,
          nlast, last>>

\* The variables of the Node under test, and those of the stores.
nodeVars == <<node, increments, nlast>>
storeVars == <<storage, inner, origin, file, saved, loaded, walk, last>>

\* Allocations and handles in use.
Live == {inner[h] : h \in {k \in Handles : inner[k] # 0}}
FreeHandles == {h \in Handles : inner[h] = 0}
FreeStores == Stores \ Live
NextHandle == CHOOSE h \in FreeHandles : \A k \in FreeHandles : h <= k
NextStore == CHOOSE s \in FreeStores : \A k \in FreeStores : s <= k

RECURSIVE SumLen(_, _)
SumLen(st, S) ==
    IF S = {} THEN 0
    ELSE LET s == CHOOSE x \in S : TRUE IN len(st[s]) + SumLen(st, S \ {s})

\* Trees held by all storages together.
TotalTrees == SumLen(storage, Stores)

\* The record of a call on allocation self (other: the allocation of the
\* argument handle of merge_from, else 0).
Call(op, self, other, player_idx, game_state, r) ==
    [op |-> op, self |-> self, other |-> other, player_idx |-> player_idx,
     game_state |-> game_state, outcome |-> r.outcome, state |-> r.state,
     traversal |-> r.traversal, pre |-> storage]

Unit == Result(EmptyInternal, "ok", None, None)

\* A fatal failure ends the program.
Running == last.outcome # "panic"

\* No walk is open; following: whether new_state is to open one.
NoWalk(following) ==
    [following |-> following, open |-> FALSE, self |-> 0, player_idx |-> 0,
     cursor |-> None, depth |-> 0, balance |-> 0, peak |-> 0]

\* The walk after new_state(_, player_idx) on allocation self ended as r: a
\* walk of that player opens at the returned cursor.
WalkAfterNewState(self, player_idx, r) ==
    IF walk.following /\ r.outcome = "ok"
    THEN [following |-> TRUE, open |-> TRUE, self |-> self,
          player_idx |-> player_idx, cursor |-> r.traversal,
          depth |-> traversal_len(r.inner, player_idx),
          balance |-> 0, peak |-> 0]
    ELSE NoWalk(walk.following)

\* The walk after push_traversal(player_idx) on allocation self ended as r.
WalkAfterPush(self, player_idx, r) ==
    IF walk.open /\ self = walk.self /\ player_idx = walk.player_idx
                 /\ r.outcome = "ok"
    THEN [walk EXCEPT !.balance = @ + 1,
                      !.peak = IF walk.balance + 1 > @ THEN walk.balance + 1 ELSE @]
    ELSE NoWalk(walk.following)

\* The walk after pop_traversal(player_idx) on allocation self ended as r: a
\* pop with no push of the walk left to undo ends the walk.
WalkAfterPop(self, player_idx, r) ==
    IF walk.open /\ self = walk.self /\ player_idx = walk.player_idx
                 /\ r.outcome = "ok" /\ walk.balance > 0
    THEN [walk EXCEPT !.balance = @ - 1]
    ELSE NoWalk(walk.following)

\* The state after construction, but for whether walks are followed.
InitStore ==
    /\ storage = [s \in Stores |-> EmptyInternal]
    /\ inner = [h \in Handles |-> IF h = 1 THEN 1 ELSE 0]
    /\ origin = [h \in Handles |-> 0]
    /\ file = None
    /\ saved = None
    /\ loaded = {}
    /\ last = Call("new", 1, 0, 0, "cfgA", Unit)
    /\ node = None
    /\ increments = [e \in EdgeInputs |-> 0]
    /\ nlast = [op |-> "none", idx |-> 0, child |-> 0, outcome |-> "ok",
                value |-> None, pre |-> None]

Init == InitStore /\ walk = NoWalk(FALSE)

\* The same, with walks followed.
InitWalk == InitStore /\ walk = NoWalk(TRUE)

\* let store = StateStore::new();
New ==
    /\ Running
    /\ FreeHandles # {} /\ FreeStores # {}
    /\ inner' = [inner EXCEPT ![NextHandle] = NextStore]
    /\ storage' = [storage EXCEPT ![NextStore] = EmptyInternal]
    /\ last' = Call("new", NextStore, 0, 0, "cfgA", Unit)
    /\ UNCHANGED <<origin, file, saved, loaded>>
    /\ walk' = NoWalk(walk.following)
    /\ UNCHANGED nodeVars

\* let dup = store.clone();
Clone(h) ==
    /\ Running
    /\ inner[h] # 0 /\ FreeHandles # {}
    /\ LET c == clone(storage, inner[h], IF FreeStores = {} THEN 0 ELSE NextStore)
       IN  /\ c.ptr # 0
           /\ inner' = [inner EXCEPT ![NextHandle] = c.ptr]
           /\ storage' = c.storage
           /\ last' = Call("clone", inner[h], c.ptr, 0, "cfgA", Unit)
    /\ origin' = [origin EXCEPT ![NextHandle] = h]
    /\ UNCHANGED <<file, saved, loaded>>
    /\ walk' = NoWalk(walk.following)
    /\ UNCHANGED nodeVars

\* store.new_state(game_state, player_idx)
NewState(h, game_state, player_idx) ==
    /\ Running
    /\ inner[h] # 0
    /\ LET r == new_state(storage[inner[h]], game_state, player_idx)
       IN  /\ storage' = [storage EXCEPT ![inner[h]] = r.inner]
           /\ last' = Call("new_state", inner[h], 0, player_idx, game_state, r)
    /\ UNCHANGED <<inner, origin, file, saved, loaded>>
    /\ walk' = WalkAfterNewState(inner[h], player_idx,
                               new_state(storage[inner[h]], game_state, player_idx))
    /\ UNCHANGED nodeVars

\* store.push_traversal(player_idx)
PushTraversal(h, player_idx) ==
    /\ Running
    /\ inner[h] # 0
    /\ LET r == push_traversal(storage[inner[h]], player_idx)
       IN  /\ storage' = [storage EXCEPT ![inner[h]] = r.inner]
           /\ last' = Call("push_traversal", inner[h], 0, player_idx, "cfgA", r)
    /\ UNCHANGED <<inner, origin, file, saved, loaded>>
    /\ walk' = WalkAfterPush(inner[h], player_idx,
                           push_traversal(storage[inner[h]], player_idx))
    /\ UNCHANGED nodeVars

\* store.pop_traversal(player_idx)
PopTraversal(h, player_idx) ==
    /\ Running
    /\ inner[h] # 0
    /\ LET r == pop_traversal(storage[inner[h]], player_idx)
       IN  /\ storage' = [storage EXCEPT ![inner[h]] = r.inner]
           /\ last' = Call("pop_traversal", inner[h], 0, player_idx, "cfgA", r)
    /\ UNCHANGED <<inner, origin, file, saved, loaded>>
    /\ walk' = WalkAfterPop(inner[h], player_idx,
                          pop_traversal(storage[inner[h]], player_idx))
    /\ UNCHANGED nodeVars

\* store.merge_from(&other): self is borrowed mutably, so other is another
\* StateStore value (the borrow checker rejects store.merge_from(&store)).
MergeFrom(h, o) ==
    /\ Running
    /\ h # o
    /\ inner[h] # 0 /\ inner[o] # 0
    /\ LET r == merge_from(storage, inner[h], inner[o])
       IN  /\ storage' = [storage EXCEPT ![inner[h]] = r.inner]
           /\ last' = Call("merge_from", inner[h], inner[o], 0, "cfgA", r)
    /\ UNCHANGED <<inner, origin, file, saved, loaded>>
    /\ walk' = NoWalk(walk.following)
    /\ UNCHANGED nodeVars

\* store.save_to_file(path): the document is serialized, then fs::write
\* writes it, ending as w says; a failed write returns the error.
SaveToFile(h, w) ==
    /\ Running
    /\ inner[h] # 0
    /\ LET doc == serialize(storage[inner[h]])
       IN  /\ file' = CASE w = "ok" -> Some(doc)
                        [] w = "err_untouched" -> file
                        [] w = "err_truncated" -> Some(Truncated(doc))
           /\ saved' = IF w = "ok" THEN Some(storage[inner[h]]) ELSE saved
           /\ last' = Call("save_to_file", inner[h], 0, 0, "cfgA",
                           Result(EmptyInternal,
                                  IF w = "ok" THEN "ok" ELSE "err", None, None))
    /\ UNCHANGED <<storage, inner, origin, loaded>>
    /\ walk' = NoWalk(walk.following)
    /\ UNCHANGED nodeVars

\* let loaded = StateStore::load_from_file(path); readable: whether
\* fs::read_to_string can read the file.
LoadFromFile(readable) ==
    /\ Running
    /\ LET r == load_from_file(storage, IF readable THEN file ELSE None,
                               IF FreeStores = {} THEN 1 ELSE NextStore)
       IN  IF r.outcome = "err"
           THEN /\ last' = Call("load_from_file", 0, 0, 0, "cfgA",
                                Result(EmptyInternal, "err", None, None))
                /\ UNCHANGED <<storage, inner, origin, file, saved, loaded>>
           ELSE /\ FreeHandles # {} /\ FreeStores # {}
                /\ inner' = [inner EXCEPT ![NextHandle] = r.ptr]
                /\ storage' = r.storage
                /\ loaded' = loaded \cup {NextHandle}
                /\ last' = Call("load_from_file", r.ptr, 0, 0, "cfgA", Unit)
                /\ UNCHANGED <<origin, file, saved>>
    /\ walk' = NoWalk(walk.following)
    /\ UNCHANGED nodeVars

\* store.peek_traversal(player_idx)
PeekTraversal(h, player_idx) ==
    /\ Running
    /\ inner[h] # 0
    /\ LET r == peek_traversal_call(storage[inner[h]], player_idx)
       IN  /\ storage' = [storage EXCEPT ![inner[h]] = r.inner]
           /\ last' = Call("peek_traversal", inner[h], 0, player_idx, "cfgA", r)
    /\ UNCHANGED <<inner, origin, file, saved, loaded, walk>>
    /\ UNCHANGED nodeVars

\* store.traversal_len(player_idx)
TraversalLen(h, player_idx) ==
    /\ Running
    /\ inner[h] # 0
    /\ LET r == traversal_len_call(storage[inner[h]], player_idx)
       IN  /\ storage' = [storage EXCEPT ![inner[h]] = r.inner]
           /\ last' = Call("traversal_len", inner[h], 0, player_idx, "cfgA", r)
    /\ UNCHANGED <<inner, origin, file, saved, loaded, walk>>
    /\ UNCHANGED nodeVars

\* store.len()
StoreLen(h) ==
    /\ Running
    /\ inner[h] # 0
    /\ LET r == len_call(storage[inner[h]])
       IN  /\ storage' = [storage EXCEPT ![inner[h]] = r.inner]
           /\ last' = Call("len", inner[h], 0, 0, "cfgA", r)
    /\ UNCHANGED <<inner, origin, file, saved, loaded, walk>>
    /\ UNCHANGED nodeVars

\* store.is_empty()
IsEmpty(h) ==
    /\ Running
    /\ inner[h] # 0
    /\ LET r == is_empty_call(storage[inner[h]])
       IN  /\ storage' = [storage EXCEPT ![inner[h]] = r.inner]
           /\ last' = Call("is_empty", inner[h], 0, 0, "cfgA", r)
    /\ UNCHANGED <<inner, origin, file, saved, loaded, walk>>
    /\ UNCHANGED nodeVars

\* The bounds of the model: no storage holds more than T trees, new_state
\* creates no more than T trees in all, and no stack is deeper than D.
WithinBounds(T, D) ==
    /\ \A s \in Stores :
          /\ len(storage[s]) <= T
          /\ \A i \in 1..Len(storage[s].traversal_states) :
                Len(storage[s].traversal_states[i]) <= D
    /\ last.op = "new_state" => TotalTrees <= T

\* The calls on the stores, within the bounds.
Calls(T, D) ==
    \/ New
    \/ \E h \in Handles : Clone(h)
    \/ \E h \in Handles, g \in Configs, p \in Players :
          NewState(h, g, p) /\ WithinBounds(T, D)'
    \/ \E h \in Handles, p \in Players :
          PushTraversal(h, p) /\ WithinBounds(T, D)'
    \/ \E h \in Handles, p \in Players : PopTraversal(h, p)
    \/ \E h \in Handles, o \in Handles :
          MergeFrom(h, o) /\ WithinBounds(T, D)'

Next == Calls(MaxTrees, MaxDepth)

Spec == Init /\ [][Next]_vars

\* The same calls with room for one more tree.
NextWide == Calls(MaxTrees + 1, MaxDepth)

SpecWide == Init /\ [][NextWide]_vars

\* One store with its snapshot file: saved, loaded back, and merged.
NextSnap ==
    \/ \E h \in Handles, g \in Configs, p \in Players :
          NewState(h, g, p) /\ WithinBounds(MaxTrees, MaxDepth)'
    \/ \E h \in Handles, p \in Players :
          PushTraversal(h, p) /\ WithinBounds(MaxTrees, MaxDepth)'
    \/ \E h \in Handles, p \in Players : PopTraversal(h, p)
    \/ \E h \in Handles, o \in Handles :
          MergeFrom(h, o) /\ WithinBounds(MaxTrees, MaxDepth)'
    \/ \E h \in Handles : SaveToFile(h, "ok")
    \/ LoadFromFile(TRUE)

SpecSnap == Init /\ [][NextSnap]_vars

\* One store whose snapshot writes and reads may fail.
NextFail ==
    \/ \E h \in Handles, g \in Configs, p \in Players :
          NewState(h, g, p) /\ WithinBounds(MaxTrees, MaxDepth)'
    \/ \E h \in Handles, p \in Players :
          PushTraversal(h, p) /\ WithinBounds(MaxTrees, MaxDepth)'
    \/ \E h \in Handles, w \in WriteOutcomes : SaveToFile(h, w)
    \/ \E readable \in BOOLEAN : LoadFromFile(readable)

SpecFail == Init /\ [][NextFail]_vars

\* One store observed and walked: trees are created, cursors pushed and
\* popped with room for one more cursor, and the observers called.
NextWalk ==
    \/ \E h \in Handles, g \in Configs, p \in Players :
          NewState(h, g, p) /\ WithinBounds(MaxTrees, MaxDepth + 1)'
    \/ \E h \in Handles, p \in Players :
          PushTraversal(h, p) /\ WithinBounds(MaxTrees, MaxDepth + 1)'
    \/ \E h \in Handles, p \in Players : PopTraversal(h, p)
    \/ \E h \in Handles, p \in Players : PeekTraversal(h, p)
    \/ \E h \in Handles, p \in Players : TraversalLen(h, p)
    \/ \E h \in Handles : StoreLen(h)
    \/ \E h \in Handles : IsEmpty(h)

SpecWalk == InitWalk /\ [][NextWalk]_vars

\* ------------------------------------------------------ the Node under test
\* The payloads a node is created with.
PlayerDatas ==
    {PlayerData_new(m, p) : m \in {None, Some("matcher")}, p \in {0, 7}}
NodeDatas ==
    {NodeData_Root, NodeData_Chance}
       \cup {NodeData_Player(d) : d \in PlayerDatas}
       \cup {NodeData_Terminal(TerminalData_new(u)) : u \in Utilities}

\* The record of a Node call.
NodeCall(op, idx, child, r) ==
    [op |-> op, idx |-> idx, child |-> child, outcome |-> r.outcome,
     value |-> r.value, pre |-> node]

\* A fatal failure ends the program; the calls below need a node.
NodeRunning == node # None /\ nlast.outcome # "panic"

\* let mut node = Node::new_root();
NodeNewRoot ==
    /\ node = None
    /\ node' = Some(Node_new_root)
    /\ nlast' = NodeCall("new_root", 0, 0, NodeResult(node, "ok", None))
    /\ UNCHANGED <<increments, storeVars>>

\* let mut node = Node::new(5, 1, 2, data);
NodeNew(data) ==
    /\ node = None
    /\ node' = Some(Node_new(5, 1, 2, data))
    /\ nlast' = NodeCall("new", 0, 0, NodeResult(node, "ok", None))
    /\ UNCHANGED <<increments, storeVars>>

\* node.set_child(idx, child)
SetChild(idx, child) ==
    /\ NodeRunning
    /\ LET r == set_child(node[1], idx, child)
       IN  /\ node' = Some(r.node)
           /\ nlast' = NodeCall("set_child", idx, child, r)
    /\ UNCHANGED <<increments, storeVars>>

\* node.get_child(idx)
GetChild(idx) ==
    /\ NodeRunning
    /\ LET r == get_child(node[1], idx)
       IN  /\ node' = Some(r.node)
           /\ nlast' = NodeCall("get_child", idx, 0, r)
    /\ UNCHANGED <<increments, storeVars>>

\* node.increment_count(idx)
IncrementCount(idx) ==
    /\ NodeRunning
    /\ LET r == increment_count(node[1], idx)
       IN  /\ node' = Some(r.node)
           /\ nlast' = NodeCall("increment_count", idx, 0, r)
           /\ increments' = IF r.outcome = "ok"
                            THEN [increments EXCEPT ![idx] = @ + 1]
                            ELSE increments
    /\ UNCHANGED storeVars

\* node.get_count(idx)
GetCount(idx) ==
    /\ NodeRunning
    /\ LET r == get_count(node[1], idx)
       IN  /\ node' = Some(r.node)
           /\ nlast' = NodeCall("get_count", idx, 0, r)
    /\ UNCHANGED <<increments, storeVars>>

\* node.iter_children().collect()
IterChildren ==
    /\ NodeRunning
    /\ node' = node
    /\ nlast' = NodeCall("iter_children", 0, 0,
                         NodeResult(node[1], "ok", iter_children(node[1])))
    /\ UNCHANGED <<increments, storeVars>>

\* node = serde_json::from_str(&serde_json::to_string(&node)?)?
NodeRoundTrip ==
    /\ NodeRunning
    /\ node' = Some(Node_deserialize(Node_serialize(node[1])))
    /\ nlast' = NodeCall("round_trip", 0, 0, NodeResult(node[1], "ok", None))
    /\ UNCHANGED <<increments, storeVars>>

\* A store of one tree whose arena holds a root and the node is saved with
\* save_to_file and loaded with load_from_file; the node is then the one of
\* the loaded store.
NodeSnapshotRoundTrip ==
    /\ NodeRunning
    /\ LET tree == CFRState_with_nodes("cfgA", <<Node_new_root, node[1]>>)
           st == [cfr_states |-> <<tree>>,
                  traversal_states |-> << <<TraversalState_new_root(0)>> >>]
           r == load_from_file(<<EmptyInternal>>, Some(serialize(st)), 1)
       IN  /\ r.outcome = "ok"
           /\ node' = Some(r.storage[1].cfr_states[1].nodes[2])
    /\ nlast' = NodeCall("snapshot_round_trip", 0, 0,
                         NodeResult(node[1], "ok", None))
    /\ UNCHANGED <<increments, storeVars>>

\* The document of node n with its children and count sequences cut down or
\* filled up to n_entries entries (the entries past the node's own name child
\* 9 and count 7).
DocumentOfLen(n, n_entries) ==
    << <<"idx", n.idx>>, <<"data", NodeData_serialize(n.data)>>,
       <<"parent", n.parent>>, <<"parent_child_idx", n.parent_child_idx>>,
       <<"children", [i \in 1..n_entries |->
                        IF i <= Width THEN n.children[i] ELSE Some(9)]>>,
       <<"count", [i \in 1..n_entries |->
                     IF i <= Width THEN n.count[i] ELSE 7]>> >>

\* let other: Node = serde_json::from_str(doc)?, for a document of the node
\* whose sequences have n_entries entries; the node itself stays as it is.
NodeFromStr(n_entries) ==
    /\ NodeRunning
    /\ node' = node
    /\ nlast' = NodeCall("from_str", n_entries, 0,
                         NodeResult(node[1], "ok",
                            Some(Node_deserialize(DocumentOfLen(node[1], n_entries)))))
    /\ UNCHANGED <<increments, storeVars>>

\* The bound of the node model: no edge is counted more than C times.
NodeWithinBounds(C) ==
    \A e \in EdgeInputs : e < Width => node[1].count[e + 1] <= C

\* The calls on one node.
NextNode ==
    \/ NodeNewRoot
    \/ \E d \in NodeDatas : NodeNew(d)
    \/ \E e \in EdgeInputs, c \in ChildInputs : SetChild(e, c)
    \/ \E e \in EdgeInputs : GetChild(e)
    \/ \E e \in EdgeInputs : IncrementCount(e) /\ NodeWithinBounds(MaxCount)'
    \/ \E e \in EdgeInputs : GetCount(e)
    \/ IterChildren
    \/ NodeRoundTrip
    \/ NodeSnapshotRoundTrip

SpecNode == Init /\ [][NextNode]_vars

\* One node built up and read back from documents of several lengths.
NextDoc ==
    \/ NodeNewRoot
    \/ \E d \in NodeDatas : NodeNew(d)
    \/ \E e \in EdgeInputs, c \in ChildInputs : SetChild(e, c)
    \/ \E e \in EdgeInputs : IncrementCount(e) /\ NodeWithinBounds(MaxCount)'
    \/ \E n \in LenInputs : NodeFromStr(n)

SpecDoc == Init /\ [][NextDoc]_vars

\* ================================================================ claims
\* The storage the last call worked on, before and after the call.
Pre == last.pre[last.self]
Post == storage[last.self]

\* The last call was op and returned normally.
Returned(op) == last.op = op /\ last.outcome = "ok"

\* C1: every new_state(cfg, p) that returns grows len() by one and
\* traversal_len(p) by exactly two, whatever the store held before and
\* whatever p is.
C1_NewStateGrowsByOneAndTwo ==
    Returned("new_state") =>
        /\ len(Post) = len(Pre) + 1
        /\ traversal_len(Post, last.player_idx)
              = traversal_len(Pre, last.player_idx) + 2

\* C2: the tree new_state(cfg, p) returns is the tree this call appended: it
\* is the last tree of the store and its starting configuration is cfg.
C2_NewStateReturnsAppendedTree ==
    Returned("new_state") =>
        /\ last.state = Last(Post.cfr_states)
        /\ last.state[1].starting_game_state = last.game_state

\* C3: the cursor new_state(cfg, p) returns and peek_traversal(p) after the
\* call both equal the root cursor of player p.
C3_NewStateReturnsRootCursorOfPlayer ==
    Returned("new_state") =>
        /\ last.traversal = Some(TraversalState_new_root(last.player_idx))
        /\ peek_traversal(Post, last.player_idx)
              = Some(TraversalState_new_root(last.player_idx))

\* C4: a traversal stack that exists (every stack is seeded by new_state, or
\* copied from a seeded one) is never empty.
C4_SeededStackNeverEmpty ==
    \A s \in Stores : \A i \in 1..Len(storage[s].traversal_states) :
        Len(storage[s].traversal_states[i]) > 0

\* C5: push_traversal(p) on a non-empty stack of p returns normally, grows
\* traversal_len(p) by one, leaves len() unchanged, and the returned cursor,
\* the new top and the top before the call are equal.
C5_PushDuplicatesTop ==
    (last.op = "push_traversal" /\ traversal_len(Pre, last.player_idx) > 0) =>
        /\ last.outcome = "ok"
        /\ traversal_len(Post, last.player_idx)
              = traversal_len(Pre, last.player_idx) + 1
        /\ len(Post) = len(Pre)
        /\ last.traversal = peek_traversal(Pre, last.player_idx)
        /\ peek_traversal(Post, last.player_idx)
              = peek_traversal(Pre, last.player_idx)

\* A push on a non-empty stack whose top is not the cursor of that slot's own
\* player has returned.
C5_Witness ==
    /\ Returned("push_traversal")
    /\ traversal_len(Pre, last.player_idx) > 0
    /\ last.traversal[1].player_idx # last.player_idx

\* C6: pop_traversal(p) on a non-empty stack removes exactly the top cursor
\* and nothing else; on an empty or missing stack it fails fatally and leaves
\* every storage as it was.
C6_PopRemovesTopOrFails ==
    last.op = "pop_traversal" =>
        IF traversal_len(Pre, last.player_idx) > 0
        THEN /\ last.outcome = "ok"
             /\ traversal_len(Post, last.player_idx)
                   = traversal_len(Pre, last.player_idx) - 1
             /\ Post.cfr_states = Pre.cfr_states
             /\ Len(Post.traversal_states) = Len(Pre.traversal_states)
             /\ \A i \in 1..Len(Pre.traversal_states) :
                   Post.traversal_states[i]
                      = IF i = last.player_idx + 1
                        THEN SubSeq(Pre.traversal_states[i], 1,
                                    Len(Pre.traversal_states[i]) - 1)
                        ELSE Pre.traversal_states[i]
             /\ \A s \in Stores \ {last.self} : storage[s] = last.pre[s]
        ELSE /\ last.outcome = "panic"
             /\ storage = last.pre

\* A pop has failed on a stack that exists and is empty.
C6_Witness ==
    /\ last.op = "pop_traversal" /\ last.outcome = "panic"
    /\ Get(Pre.traversal_states, last.player_idx) = Some(<<>>)

\* C7: push_traversal(p) fails fatally when p has no stack, an empty stack or
\* no tree, and then every storage is as it was before the call.
C7_PushFailsWithoutStackAndChangesNothing ==
    (/\ last.op = "push_traversal"
     /\ \/ traversal_len(Pre, last.player_idx) = 0
        \/ Get(Pre.cfr_states, last.player_idx) = None) =>
        /\ last.outcome = "panic"
        /\ storage = last.pre

\* A push has failed on a stack that exists and is empty.
C7_Witness ==
    /\ last.op = "push_traversal" /\ last.outcome = "panic"
    /\ Get(Pre.traversal_states, last.player_idx) = Some(<<>>)

\* C8 as stated: for any two handles, merge_from makes self's size A + B and
\* appends other's trees and stacks in order.
C8_MergeOfAnyTwoHandles ==
    last.op = "merge_from" =>
        LET A == len(Pre)
            B == len(last.pre[last.other])
        IN  /\ len(Post) = A + B
            /\ Len(Post.traversal_states) = Len(Pre.traversal_states) + B
            /\ \A i \in 1..B :
                  /\ Post.cfr_states[A + i] = last.pre[last.other].cfr_states[i]
                  /\ Post.traversal_states[Len(Pre.traversal_states) + i]
                        = last.pre[last.other].traversal_states[i]

\* C8 amended: for two handles over different storages, merge_from returns,
\* makes self's size A + B, and the trees and stacks appended to self are
\* other's, in other's order.
C8_MergeOfDistinctStorages ==
    (last.op = "merge_from" /\ last.self # last.other) =>
        LET A == len(Pre)
            B == len(last.pre[last.other])
            O == last.pre[last.other]
        IN  /\ last.outcome = "ok"
            /\ len(Post) = A + B
            /\ Len(Post.traversal_states)
                  = Len(Pre.traversal_states) + Len(O.traversal_states)
            /\ \A i \in 1..B : Post.cfr_states[A + i] = O.cfr_states[i]
            /\ \A i \in 1..Len(O.traversal_states) :
                  Post.traversal_states[Len(Pre.traversal_states) + i]
                     = O.traversal_states[i]

\* A merge of a store of two different trees, with different stacks, has
\* returned.
C8_Witness ==
    /\ Returned("merge_from") /\ last.self # last.other
    /\ len(last.pre[last.other]) = 2
    /\ last.pre[last.other].cfr_states[1] # last.pre[last.other].cfr_states[2]
    /\ last.pre[last.other].traversal_states[1]
          # last.pre[last.other].traversal_states[2]

\* C9: a duplicate of a handle reports the same len(), traversal_len(p) and
\* peek_traversal(p) as the handle it was cloned from, after any calls
\* through either.
C9_DuplicatesShareStorage ==
    \A h \in Handles :
        origin[h] # 0 =>
            /\ len(storage[inner[h]]) = len(storage[inner[origin[h]]])
            /\ \A p \in Players :
                  /\ traversal_len(storage[inner[h]], p)
                        = traversal_len(storage[inner[origin[h]]], p)
                  /\ peek_traversal(storage[inner[h]], p)
                        = peek_traversal(storage[inner[origin[h]]], p)

\* A duplicate exists and a push has just returned on a store of two trees.
C9_Witness ==
    /\ \E h \in Handles : origin[h] # 0
    /\ Returned("push_traversal")
    /\ len(Post) = 2

\* C10: the store load_from_file returns has the len(), the starting
\* configurations in order, and the traversal stacks in order (depth and
\* cursors) of the store save_to_file wrote.
C10_SnapshotRoundTrip ==
    (Returned("load_from_file") /\ saved # None) =>
        LET L == storage[last.self]
            S == saved[1]
        IN  /\ len(L) = len(S)
            /\ \A i \in 1..len(S) :
                  L.cfr_states[i].starting_game_state
                     = S.cfr_states[i].starting_game_state
            /\ Len(L.traversal_states) = Len(S.traversal_states)
            /\ \A p \in Players :
                  /\ traversal_len(L, p) = traversal_len(S, p)
                  /\ peek_traversal(L, p) = peek_traversal(S, p)
            /\ \A i \in 1..Len(S.traversal_states) :
                  /\ Len(L.traversal_states[i]) = Len(S.traversal_states[i])
                  /\ \A j \in 1..Len(S.traversal_states[i]) :
                        L.traversal_states[i][j] = S.traversal_states[i][j]

\* A store of two different trees with stacks of different depth and player
\* has been saved and loaded back.
C10_Witness ==
    /\ Returned("load_from_file") /\ saved # None
    /\ len(saved[1]) = 2
    /\ saved[1].cfr_states[1] # saved[1].cfr_states[2]
    /\ Len(saved[1].traversal_states[1]) # Len(saved[1].traversal_states[2])
    /\ Len(saved[1].traversal_states[2]) > 0
    /\ saved[1].traversal_states[2][1].player_idx = 1

\* C11: a store returned by load_from_file shares its storage with no other
\* handle, and new_state, push_traversal, pop_traversal and merge_from change
\* only the storage of the handle they are called on: calls through the loaded
\* handle leave the writer (and every other store) unchanged, and calls
\* through the others leave the loaded store unchanged.
C11_LoadedStoreOwnsFreshStorage ==
    /\ \A h \in loaded : \A k \in Handles \ {h} : inner[k] # inner[h]
    /\ last.op \in {"new_state", "push_traversal", "pop_traversal", "merge_from"}
          => \A s \in Stores \ {last.self} : storage[s] = last.pre[s]

\* push_traversal has returned on a loaded store whose snapshot was written
\* from a store of one tree: player 0's stack is now deeper in the loaded
\* store than in the writer.
C11_Witness ==
    /\ Returned("push_traversal")
    /\ \E h \in loaded : inner[h] = last.self
    /\ traversal_len(Post, 0) = 3
    /\ \E k \in Handles \ loaded :
          inner[k] # 0 /\ traversal_len(storage[inner[k]], 0) = 2

\* C12: load_from_file never fails fatally; on a missing, unreadable or
\* undecodable snapshot it returns an error, creates no store and leaves
\* every storage as it was.
C12_FailedLoadReturnsErrorAndChangesNothing ==
    last.op = "load_from_file" =>
        /\ last.outcome \in {"ok", "err"}
        /\ (\/ file = None
            \/ Field(file[1], "cfr_states") = None
            \/ Field(file[1], "traversal_states") = None)
              => last.outcome = "err"
        /\ last.outcome = "err" => storage = last.pre /\ last.self = 0

\* A load of a truncated snapshot has returned an error while a store of two
\* trees exists.
C12_Witness ==
    /\ last.op = "load_from_file" /\ last.outcome = "err"
    /\ file # None /\ Field(file[1], "traversal_states") = None
    /\ \E s \in Stores : len(storage[s]) = 2

\* The node the last Node call worked on, before and after the call.
NPre == nlast.pre[1]
NPost == node[1]

\* The last Node call was op on an existing node.
NodeCalled(op) == nlast.op = op /\ nlast.pre # None

\* C13: edges are write-once.  After set_child(e, c) returns, get_child(e) is
\* Some(c); set_child on an occupied edge fails fatally, also with the value
\* the edge holds, and leaves the node unchanged; get_child returns the slot;
\* and no call of any kind changes an occupied slot.
C13_EdgesAreWriteOnce ==
    /\ (NodeCalled("set_child") /\ nlast.outcome = "ok")
          => NPost.children[nlast.idx + 1] = Some(nlast.child)
    /\ (NodeCalled("set_child") /\ nlast.idx < Width)
          => IF NPre.children[nlast.idx + 1] = None
             THEN nlast.outcome = "ok"
             ELSE nlast.outcome = "panic" /\ NPost = NPre
    /\ (NodeCalled("get_child") /\ nlast.idx < Width)
          => /\ nlast.outcome = "ok"
             /\ nlast.value = NPost.children[nlast.idx + 1]
    /\ nlast.pre # None
          => \A i \in 1..Width :
                NPre.children[i] # None => NPost.children[i] = NPre.children[i]

\* set_child has failed on the last edge, which already held the value it was
\* given.
C13_Witness ==
    /\ NodeCalled("set_child") /\ nlast.outcome = "panic"
    /\ nlast.idx = Width - 1
    /\ NPre.children[Width] = Some(nlast.child)

\* C14: on a non-terminal node for every edge, and on a Terminal node for
\* edge 0, increment_count(e) returns and get_count(e) is the number of
\* increment_count(e) calls made so far, 0 at first, whatever set_child and
\* increment_count calls on other edges come in between.
C14_CountIsNumberOfIncrements ==
    node # None =>
        /\ \A e \in EdgeInputs :
              (e < Width /\ (e = 0 \/ ~is_terminal(NPost.data)))
                 => get_count(NPost, e).value = increments[e]
        /\ \A e \in 0..(Width - 1) :
              (e \notin EdgeInputs /\ ~is_terminal(NPost.data))
                 => get_count(NPost, e).value = 0
        /\ (/\ NodeCalled("increment_count") /\ nlast.idx < Width
            /\ (nlast.idx = 0 \/ ~is_terminal(NPre.data)))
              => nlast.outcome = "ok"
        /\ (NodeCalled("get_count") /\ nlast.idx < Width)
              => nlast.value = NPost.count[nlast.idx + 1]

\* get_count has returned 2 for the last edge of a node with a child on edge
\* 0 and one visit counted on edge 1.
C14_Witness ==
    /\ NodeCalled("get_count") /\ nlast.idx = Width - 1 /\ nlast.value = 2
    /\ increments[1] = 1 /\ increments[0] = 0
    /\ NPost.children[1] # None

\* C15: on a Terminal node increment_count(e) with e # 0 fails fatally and
\* changes no counter, so every counter of a Terminal node other than that of
\* edge 0 is 0 in every reachable state.
C15_TerminalCountsOnlyEdgeZero ==
    /\ (/\ NodeCalled("increment_count") /\ nlast.idx # 0
        /\ is_terminal(NPre.data))
          => nlast.outcome = "panic" /\ NPost = NPre
    /\ (node # None /\ is_terminal(NPost.data))
          => \A e \in 1..(Width - 1) : get_count(NPost, e).value = 0

\* increment_count(1) has failed on a Terminal node whose edge 0 was counted
\* once.
C15_Witness ==
    /\ NodeCalled("increment_count") /\ nlast.idx = 1
    /\ nlast.outcome = "panic"
    /\ is_terminal(NPre.data) /\ NPre.count[1] = 1

\* C16: iter_children() yields the pairs (e, c) with get_child(e) = Some(c),
\* each once, in strictly ascending order of e, leaves the node unchanged, and
\* yields the same sequence when called again.
C16_IterChildrenYieldsOccupiedEdgesAscending ==
    NodeCalled("iter_children") =>
        LET v == nlast.value
        IN  /\ \A k \in 1..(Len(v) - 1) : v[k][1] < v[k + 1][1]
            /\ {v[k] : k \in 1..Len(v)}
                  = {<<i - 1, NPost.children[i][1]>> :
                        i \in {j \in 1..Width : NPost.children[j] # None}}
            /\ NPost = NPre
            /\ iter_children(NPost) = v

\* iter_children has yielded the three edges 0, 1 and the last one, with
\* different children.
C16_Witness ==
    /\ NodeCalled("iter_children")
    /\ Len(nlast.value) = 3
    /\ nlast.value[1] = <<0, 2>>
    /\ nlast.value[3] = <<Width - 1, 1>>

\* C18: a Node serialized and deserialized has the idx, parent,
\* parent_child_idx and NodeData variant of the original, and the same
\* get_child(e) and get_count(e) for every edge e.
C18_NodeRoundTrip ==
    NodeCalled("round_trip") =>
        /\ nlast.outcome = "ok"
        /\ NPost.idx = NPre.idx
        /\ NPost.parent = NPre.parent
        /\ NPost.parent_child_idx = NPre.parent_child_idx
        /\ NPost.data.kind = NPre.data.kind
        /\ \A e \in 0..(Width - 1) :
              /\ get_child(NPost, e).value = get_child(NPre, e).value
              /\ get_count(NPost, e).value = get_count(NPre, e).value

\* A Terminal node with a child on the last edge and with edge 0 counted
\* twice has made the round trip.
C18_Witness ==
    /\ NodeCalled("round_trip")
    /\ is_terminal(NPre.data)
    /\ NPre.children[Width] = Some(2)
    /\ NPre.count[1] = 2

\* C17: a PlayerData serialized and deserialized, on its own inside a node
\* or inside a store snapshot written by save_to_file and read by
\* load_from_file, has no regret matcher, whether it had one before or not,
\* and the player_idx it had.
C17_PlayerDataRoundTripDropsMatcher ==
    ((NodeCalled("round_trip") \/ NodeCalled("snapshot_round_trip"))
        /\ NPre.data.kind = "Player") =>
        /\ nlast.outcome = "ok"
        /\ NPost.data.kind = "Player"
        /\ NPost.data.data.regret_matcher = None
        /\ NPost.data.data.player_idx = NPre.data.data.player_idx

\* A Player node of player 7 holding a regret matcher has come back from a
\* store snapshot.
C17_Witness ==
    /\ NodeCalled("snapshot_round_trip")
    /\ NPre.data.kind = "Player"
    /\ NPre.data.data.regret_matcher # None
    /\ NPre.data.data.player_idx = 7

\* C19: peek_traversal(p), traversal_len(p), len() and is_empty() return
\* normally and leave every storage as it was; peek_traversal(p) returns
\* nothing when p has no stack or an empty one and the top cursor of p's
\* stack otherwise, and traversal_len(p) is 0 for a player without a stack.
C19_ObserversDoNotModify ==
    last.op \in {"peek_traversal", "traversal_len", "len", "is_empty"} =>
        /\ last.outcome = "ok"
        /\ storage = last.pre
        /\ last.op = "peek_traversal" =>
              last.traversal
                 = IF last.player_idx < Len(Pre.traversal_states)
                   THEN (IF Len(Pre.traversal_states[last.player_idx + 1]) = 0
                         THEN None
                         ELSE Some(Pre.traversal_states[last.player_idx + 1]
                                  [Len(Pre.traversal_states[last.player_idx + 1])]))
                   ELSE None
        /\ last.op = "traversal_len" =>
              last.traversal
                 = IF last.player_idx < Len(Pre.traversal_states)
                   THEN Some(Len(Pre.traversal_states[last.player_idx + 1]))
                   ELSE Some(0)
        /\ last.op = "len" => last.traversal = Some(Len(Pre.cfr_states))
        /\ last.op = "is_empty" => last.traversal = Some(Len(Pre.cfr_states) = 0)

\* peek_traversal has returned the top cursor of a stack of three cursors.
C19_Witness ==
    /\ Returned("peek_traversal")
    /\ traversal_len(Pre, last.player_idx) = 3
    /\ last.traversal # None

\* C20: a push_traversal(p) that returns, followed at once by
\* pop_traversal(p) on the same store, leaves every storage as it was before
\* the push; and whenever the pushes and pops on p that followed a
\* new_state(cfg, p), properly nested, have cancelled out, peek_traversal(p)
\* is the cursor new_state returned and traversal_len(p) is what it was right
\* after new_state.
C20_StackDiscipline ==
    /\ [][(/\ last.op = "push_traversal" /\ last.outcome = "ok"
           /\ last'.op = "pop_traversal"
           /\ last'.self = last.self /\ last'.player_idx = last.player_idx)
             => (last'.outcome = "ok" /\ storage' = last.pre)]_vars
    /\ [](walk.open /\ walk.balance = 0 =>
             /\ traversal_len(storage[walk.self], walk.player_idx) = walk.depth
             /\ peek_traversal(storage[walk.self], walk.player_idx) = walk.cursor)

\* A walk that went two pushes deep has popped back to where new_state left
\* it.
C20_Witness ==
    /\ walk.open /\ walk.balance = 0 /\ walk.peak = 2
    /\ Returned("pop_traversal")

\* C21: push_traversal(p) and pop_traversal(p), however they end and whichever
\* handle of the store they are called through, leave the trees, the number
\* of stacks, the stack of every other player and every other storage as they
\* were.
C21_TraversalStacksArePlayerScoped ==
    last.op \in {"push_traversal", "pop_traversal"} =>
        /\ Post.cfr_states = Pre.cfr_states
        /\ Len(Post.traversal_states) = Len(Pre.traversal_states)
        /\ \A i \in 1..Len(Pre.traversal_states) :
              i # last.player_idx + 1
                 => Post.traversal_states[i] = Pre.traversal_states[i]
        /\ \A s \in Stores \ {last.self} : storage[s] = last.pre[s]

\* push_traversal(0) has returned on a store of two stacks that has a
\* duplicate handle.
C21_Witness ==
    /\ Returned("push_traversal") /\ last.player_idx = 0
    /\ Len(Pre.traversal_states) = 2
    /\ Len(Pre.traversal_states[2]) > 0
    /\ \E h \in Handles : origin[h] # 0 /\ inner[h] = last.self

\* What C22 says of everything but len(): merge_from(other) with other on
\* different storage leaves other's storage (and every third one) unchanged,
\* the trees and stacks self held keep their slots and contents, so
\* traversal_len(p) for the players self knew is as before, and other's stack
\* of player q lands at the q-th slot after self's with its cursors, their
\* player_idx included, unchanged.
MergeAppendsBehind ==
    (last.op = "merge_from" /\ last.self # last.other) =>
        LET O == last.pre[last.other]
            A == Len(Pre.traversal_states)
        IN  /\ \A s \in Stores \ {last.self} : storage[s] = last.pre[s]
            /\ \A i \in 1..len(Pre) : Post.cfr_states[i] = Pre.cfr_states[i]
            /\ Len(Post.traversal_states) = A + Len(O.traversal_states)
            /\ \A i \in 1..A :
                  /\ Post.traversal_states[i] = Pre.traversal_states[i]
                  /\ traversal_len(Post, i - 1) = traversal_len(Pre, i - 1)
            /\ \A q \in 0..(Len(O.traversal_states) - 1) :
                  /\ traversal_len(Post, A + q) = traversal_len(O, q)
                  /\ \A j \in 1..traversal_len(O, q) :
                        Post.traversal_states[A + q + 1][j].player_idx
                           = O.traversal_states[q + 1][j].player_idx

\* C22 as stated: merge_from(other) with other on different storage only
\* appends behind what self held, and len() of self is as before.
C22_MergeLeavesLenAsBefore ==
    /\ MergeAppendsBehind
    /\ (last.op = "merge_from" /\ last.self # last.other)
          => len(Post) = len(Pre)

\* C22 amended: merge_from(other) with other on different storage only
\* appends behind what self held, and len() of self grows by len() of other.
C22_MergeOnlyAppends ==
    /\ MergeAppendsBehind
    /\ (last.op = "merge_from" /\ last.self # last.other)
          => len(Post) = len(Pre) + len(last.pre[last.other])

\* A store of one tree has been merged into a store of one tree: the stack of
\* other's player 0 is now at slot 1 of self and its cursors still say player
\* 0.
C22_Witness ==
    /\ Returned("merge_from") /\ last.self # last.other
    /\ len(Pre) = 1 /\ len(last.pre[last.other]) = 1
    /\ traversal_len(Post, 1) > 0
    /\ Post.traversal_states[2][1].player_idx = 0

\* C24: every storage holds as many traversal stacks as trees, also after a
\* call that failed fatally part-way; so a push_traversal(p) that finds a
\* stack for p finds a tree at slot p.
C24_AsManyStacksAsTrees ==
    /\ \A s \in Stores :
          Len(storage[s].cfr_states) = Len(storage[s].traversal_states)
    /\ (last.op = "push_traversal"
           /\ Get(Pre.traversal_states, last.player_idx) # None)
          => Get(Pre.cfr_states, last.player_idx) # None

\* new_state for a player past the end of the store has failed fatally after
\* appending its tree and its stack.
C24_Witness ==
    /\ last.op = "new_state" /\ last.outcome = "panic"
    /\ last.player_idx > len(Pre)
    /\ len(Post) = len(Pre) + 1

\* C25: merge_from(other) with other a duplicate handle of self fails fatally
\* and leaves every storage, the shared one included, as it was.
C25_MergeWithDuplicateFails ==
    (last.op = "merge_from" /\ last.self = last.other) =>
        /\ last.outcome = "panic"
        /\ storage = last.pre
        /\ len(Post) = len(Pre)

\* A store of two trees has been merged with a duplicate of itself.
C25_Witness ==
    /\ last.op = "merge_from" /\ last.self = last.other
    /\ last.outcome = "panic"
    /\ len(Pre) = 2

\* C26: a traversal stack popped down to zero entries stays empty: on it
\* push_traversal(p), pop_traversal(p) and new_state(_, p) fail fatally, and
\* no call of any kind makes an empty stack non-empty again.
C26_EmptiedStackStaysEmpty ==
    /\ []((last.op \in {"push_traversal", "pop_traversal", "new_state"}
             /\ Get(Pre.traversal_states, last.player_idx) = Some(<<>>))
            => /\ last.outcome = "panic"
               /\ traversal_len(Post, last.player_idx) = 0)
    /\ [][\A s \in Stores : \A i \in 1..Len(storage[s].traversal_states) :
             storage[s].traversal_states[i] = <<>>
                => /\ i <= Len(storage'[s].traversal_states)
                   /\ storage'[s].traversal_states[i] = <<>>]_vars

\* new_state(_, p) has failed on a store whose stack of p had been popped
\* empty.
C26_Witness ==
    /\ last.op = "new_state" /\ last.outcome = "panic"
    /\ Get(Pre.traversal_states, last.player_idx) = Some(<<>>)

\* C23: a Node read from a document whose children and count sequences have
\* n entries has full-width tables: the first n slots (the first 52 when n is
\* larger) hold the written values, the slots from n on are empty and zero,
\* and entries past the 52nd are ignored without error.
C23_ShortAndLongSequencesFillTheTable ==
    NodeCalled("from_str") =>
        LET n == nlast.idx
            doc == DocumentOfLen(NPre, n)
            written_children == Field(doc, "children")[1]
            written_count == Field(doc, "count")[1]
            read == nlast.value[1]
        IN  /\ nlast.outcome = "ok"
            /\ Len(written_children) = n /\ Len(written_count) = n
            /\ Len(read.children) = Width /\ Len(read.count) = Width
            /\ \A e \in 0..(Width - 1) :
                  IF e < n
                  THEN /\ get_child(read, e).value = written_children[e + 1]
                       /\ get_count(read, e).value = written_count[e + 1]
                  ELSE /\ get_child(read, e).value = None
                       /\ get_count(read, e).value = 0

\* A document of 51 entries made from a node with a child and two visits on
\* its last edge has been read: the last slot of the node read is empty.
C23_Witness ==
    /\ NodeCalled("from_str") /\ nlast.idx = Width - 1
    /\ NPre.children[Width] # None /\ NPre.count[Width] = 2
    /\ nlast.value[1].children[Width] = None
=============================================================================
